---------------------------- MODULE Spec2Model ----------------------------
(***************************************************************************)
(* A model of pngme: the chunk type (chunk_type.rs), the chunk codec       *)
(* (chunk.rs) and the encode / decode / remove / print commands            *)
(* (commands.rs).                                                          *)
(*                                                                         *)
(* Numbers.  A u32 is modelled by its four base-256 digits, least          *)
(* significant first, and a usize (a length, an index) by its base-256     *)
(* digits, least significant first, without leading zero digits.  Both     *)
(* keep the arithmetic of the program exact for every value, including     *)
(* lengths of 2^32 bytes and more.                                         *)
(*                                                                         *)
(* Byte strings.  A Vec<u8> or &[u8] is modelled run-length encoded: a     *)
(* sequence of runs [b |-> byte, n |-> usize], adjacent runs holding       *)
(* different bytes and no run empty.  Every byte string has exactly one    *)
(* such encoding, so equality of encodings is equality of byte strings.    *)
(*                                                                         *)
(* CRC-32.  The register is the set of its one bits, bit 31 being x^0, so  *)
(* xor is symmetric difference; a run of equal bytes is folded in by a     *)
(* power of the affine map of one byte.                                    *)
(*                                                                         *)
(* Builds.  overflow_checks tells the dev profile (arithmetic overflow     *)
(* panics) from the release profile (it wraps).  The container, png.rs, is *)
(* modelled from its specification.                                        *)
(***************************************************************************)
EXTENDS Integers, Sequences, FiniteSets

Byte == 0..255

\* F applied to the value of v, and to the values of v and w: the value is
\* computed once, however often F uses it.
With(v, F(_)) == CHOOSE r \in {F(x) : x \in {v}} : TRUE
With2(v, w, F(_, _)) == CHOOSE r \in {F(x, y) : x \in {v}, y \in {w}} : TRUE

\* ------------------------------------------------------------------ usize

RECURSIVE NatOf(_)
\* The usize with value i (i a small non-negative integer).
NatOf(i) == IF i = 0 THEN <<>> ELSE <<i % 256>> \o NatOf(i \div 256)

\* Drops leading (most significant) zero digits.
Norm(a) ==
  IF \A i \in 1..Len(a) : a[i] = 0 THEN <<>>
  ELSE SubSeq(a, 1, CHOOSE i \in 1..Len(a) :
                      a[i] # 0 /\ \A j \in (i + 1)..Len(a) : a[j] = 0)

Digit(a, i) == IF i <= Len(a) THEN a[i] ELSE 0

RECURSIVE AddFrom(_, _, _, _, _)
AddFrom(a, b, i, carry, sum) ==
  IF i > Len(a) /\ i > Len(b)
  THEN (IF carry = 0 THEN sum ELSE Append(sum, carry))
  ELSE With(Digit(a, i) + Digit(b, i) + carry, LAMBDA s :
         With(Append(sum, s % 256), LAMBDA t :
           AddFrom(a, b, i + 1, s \div 256, t)))

\* The integer value of a usize of at most three digits.
IntOf(a) == Digit(a, 1) + 256 * Digit(a, 2) + 65536 * Digit(a, 3)

\* a + b on usize values (the lengths of slices that exist in memory never
\* reach the top of the usize range, so no overflow is modelled).  Values of
\* at most three digits are added as integers.
NAdd(a, b) ==
  With2(a, b, LAMBDA x, y :
    IF Len(x) <= 3 /\ Len(y) <= 3 THEN NatOf(IntOf(x) + IntOf(y))
    ELSE AddFrom(x, y, 1, 0, <<>>))

\* a < b on usize values and on u32 values: the most significant digit in
\* which they differ decides.
NLess(a, b) ==
  With2(a, b, LAMBDA x, y :
    IF Len(x) <= 3 /\ Len(y) <= 3 THEN IntOf(x) < IntOf(y)
    ELSE \E i \in 1..Len(y) :
      /\ Digit(x, i) < y[i]
      /\ \A j \in (i + 1)..(IF Len(x) > Len(y) THEN Len(x) ELSE Len(y)) :
           Digit(x, j) = Digit(y, j))

NLeq(a, b) == ~NLess(b, a)

RECURSIVE SubFrom(_, _, _, _, _)
SubFrom(a, b, i, borrow, diff) ==
  IF i > Len(a) THEN diff
  ELSE With(Digit(a, i) - Digit(b, i) - borrow, LAMBDA d :
         With(Append(diff, d % 256), LAMBDA t :
           SubFrom(a, b, i + 1, IF d < 0 THEN 1 ELSE 0, t)))

\* a - b on usize values, for b <= a.
NSub(a, b) ==
  With2(a, b, LAMBDA x, y :
    IF Len(x) <= 3 /\ Len(y) <= 3 THEN NatOf(IntOf(x) - IntOf(y))
    ELSE Norm(SubFrom(x, y, 1, 0, <<>>)))

\* -------------------------------------------------------------------- u32

\* `n as u32`: the low 32 bits of a usize.
AsU32(n) == With(n, LAMBDA x : <<Digit(x, 1), Digit(x, 2), Digit(x, 3), Digit(x, 4)>>)

\* The u32 with value i (i a small non-negative integer).
U32Of(i) == AsU32(NatOf(i))

\* u32::to_be_bytes: most significant byte first.
to_be_bytes(w) == With(w, LAMBDA x : <<x[4], x[3], x[2], x[1]>>)

\* u32::from_le_bytes of a 4-byte array: the other byte order.
from_le_bytes(b) == With(b, LAMBDA x : <<x[1], x[2], x[3], x[4]>>)

\* u32::from_be_bytes of a 4-byte array.
from_be_bytes(b) == With(b, LAMBDA x : <<x[4], x[3], x[2], x[1]>>)

\* a < b on u32 values.
U32Less(a, b) == NLess(a, b)

\* a - b on u32 values, modulo 2^32.
U32WrappingSub(a, b) == With2(a, b, LAMBDA x, y : SubFrom(x, y, 1, 0, <<>>))

\* Bit i of the byte a.
Bit(a, i) == (a \div (2 ^ i)) % 2

\* a & b on bytes.
BitAnd(a, b) ==
  With2(a, b, LAMBDA x, y :
    Bit(x, 0) * Bit(y, 0) + 2 * Bit(x, 1) * Bit(y, 1)
    + 4 * Bit(x, 2) * Bit(y, 2) + 8 * Bit(x, 3) * Bit(y, 3)
    + 16 * Bit(x, 4) * Bit(y, 4) + 32 * Bit(x, 5) * Bit(y, 5)
    + 64 * Bit(x, 6) * Bit(y, 6) + 128 * Bit(x, 7) * Bit(y, 7))

\* ------------------------------------------------------------ CRC-32

\* The 32-bit register of the CRC, and a polynomial over GF(2) of degree
\* below 32, are modelled as the set of the positions (0..31) of their 1
\* bits.  The register is reflected: bit 31 is the coefficient of x^0.

\* The bits of the byte b, and of the u32 w.
Bits(b) == {i \in 0..7 : (b \div (2 ^ i)) % 2 = 1}
U32Bits(w) == {i \in 0..31 : (w[(i \div 8) + 1] \div (2 ^ (i % 8))) % 2 = 1}

RECURSIVE ByteOfBits(_, _, _)
\* The byte whose bits i..7 are the bits lo + i .. lo + 7 of s, shifted
\* down by i.
ByteOfBits(s, lo, i) ==
  IF i > 7 THEN 0
  ELSE (IF lo + i \in s THEN 1 ELSE 0) + 2 * ByteOfBits(s, lo, i + 1)

\* The u32 with the bits s.
U32OfBits(s) ==
  With(s, LAMBDA x :
    <<ByteOfBits(x, 0, 0), ByteOfBits(x, 8, 0),
      ByteOfBits(x, 16, 0), ByteOfBits(x, 24, 0)>>)

\* a ^ b
Xor(a, b) == With2(a, b, LAMBDA x, y : (x \ y) \cup (y \ x))

\* CRC_32_ISO_HDLC: poly 0x04c11db7 reflected (0xedb88320), init and xorout
\* 0xffffffff, input and output reflected.
CrcPoly == {5, 8, 9, 15, 19, 20, 21, 23, 24, 26, 27, 29, 30, 31}
CrcInit == 0..31
CrcXorOut == 0..31

\* One bit of the reflected shift register: multiplication by x modulo the
\* polynomial.
CrcShift(c) ==
  With(c, LAMBDA x :
    IF 0 \in x THEN Xor({i - 1 : i \in x \ {0}}, CrcPoly)
    ELSE {i - 1 : i \in x})

RECURSIVE CrcShifts(_, _)
CrcShifts(c, k) ==
  IF k = 0 THEN c ELSE With(CrcShift(c), LAMBDA d : CrcShifts(d, k - 1))

\* The crc crate's 256-entry lookup table, indexed by the bits of the byte.
CrcTable == CHOOSE f \in {[s \in SUBSET (0..7) |-> CrcShifts(s, 8)]} : TRUE

\* The register after one more byte b.
CrcByte(c, b) ==
  With(c, LAMBDA x :
    Xor(CrcTable[Xor(x \cap (0..7), Bits(b))], {i - 8 : i \in x \ (0..7)}))

\* The register update of a byte b is the affine map c |-> c*m + k on
\* polynomials modulo the CRC polynomial, with m = x^8 and k the table's
\* entry for b.  The polynomial 1 is bit 31.
PolyOne == {31}

RECURSIVE ShiftsFrom(_, _)
\* s extended by k more shifts of its last element.
ShiftsFrom(s, k) ==
  IF k = 0 THEN s
  ELSE With(Append(s, CrcShift(s[Len(s)])), LAMBDA s2 : ShiftsFrom(s2, k - 1))

\* <<b, b*x, ..., b*x^7>>
Shifts8(b) == With(b, LAMBDA y : ShiftsFrom(<<y>>, 7))

\* The sum of the sh[k + 1] for the bits 7 - k of byte number n of a: b
\* times the part of a in that byte, over x^(24 - 8n), for sh = Shifts8(b).
MulByte(a, n, sh) ==
  {j \in 0..31 :
     Cardinality({k \in 0..7 : (8 * n + 7 - k) \in a /\ j \in sh[k + 1]}) % 2 = 1}

RECURSIVE MulFrom(_, _, _, _)
\* Horner's rule over the bytes n..3 of a.
MulFrom(a, sh, n, acc) ==
  IF n > 3 THEN acc
  ELSE With(Xor(CrcShifts(acc, 8), MulByte(a, n, sh)), LAMBDA p :
         MulFrom(a, sh, n + 1, p))

\* Product of the polynomials a and b modulo the CRC polynomial.
PolyMul(a, b) ==
  With2(a, Shifts8(b), LAMBDA x, sh : MulFrom(x, sh, 0, {}))

AffId == [m |-> PolyOne, k |-> {}]

\* AffThen(f, g) is the map f followed by the map g.
AffThen(f, g) ==
  With2(f, g, LAMBDA x, y :
    IF y = AffId THEN x
    ELSE With(Shifts8(y.m), LAMBDA sh :
           [m |-> MulFrom(x.m, sh, 0, {}),
            k |-> Xor(MulFrom(x.k, sh, 0, {}), y.k)]))

AffByte(b) == [m |-> CrcShifts(PolyOne, 8), k |-> CrcTable[Bits(b)]]

RECURSIVE AffPowSmall(_, _)
\* f repeated d times, d <= 256, by repeated squaring.
AffPowSmall(f, d) ==
  IF d = 0 THEN AffId
  ELSE With(AffPowSmall(f, d \div 2), LAMBDA h :
         AffThen(AffThen(h, h), IF d % 2 = 1 THEN f ELSE AffId))

RECURSIVE AffPowFrom(_, _, _, _)
\* acc followed by f repeated (the digits i.. of n) times.
AffPowFrom(f, n, i, acc) ==
  IF i > Len(n) THEN acc
  ELSE With([d \in {256, n[i]} |-> AffPowSmall(f, d)], LAMBDA pw :
         With2(pw[256], AffThen(acc, pw[n[i]]), LAMBDA f2, acc2 :
           AffPowFrom(f2, n, i + 1, acc2)))

\* f repeated n times (n a usize).
AffPow(f, n) == With2(f, n, LAMBDA x, y : AffPowFrom(x, y, 1, AffId))

\* The map f applied to the register c.
AffApply(f, c) == AffThen([m |-> {}, k |-> c], f).k

RECURSIVE CrcRepeat(_, _, _)
CrcRepeat(c, b, k) ==
  IF k = 0 THEN c ELSE With(CrcByte(c, b), LAMBDA d : CrcRepeat(d, b, k - 1))

\* The register after a run of n bytes b: byte by byte for a short run, and
\* by the n-th power of the byte's update for a long one (the same value).
CrcRun(c, b, n) ==
  IF Len(n) <= 1 /\ IntOf(n) <= 8 THEN CrcRepeat(c, b, IntOf(n))
  ELSE AffApply(AffPow(AffByte(b), n), c)

RECURSIVE CrcUpdate(_, _, _, _)
\* The register after the runs lo..hi of s.
CrcUpdate(c, s, lo, hi) ==
  IF lo > hi THEN c
  ELSE IF lo = hi THEN CrcRun(c, s[lo].b, s[lo].n)
  ELSE With(CrcUpdate(c, s, lo, (lo + hi) \div 2), LAMBDA d :
         CrcUpdate(d, s, ((lo + hi) \div 2) + 1, hi))

\* Crc::<u32>::new(&CRC_32_ISO_HDLC).checksum(bytes)
checksum(s) ==
  With(s, LAMBDA x : U32OfBits(Xor(CrcUpdate(CrcInit, x, 1, Len(x)), CrcXorOut)))

\* ------------------------------------------------------------ byte strings

\* The byte string a followed by the byte string b: the runs that meet are
\* merged when they hold the same byte.
Join(a, b) ==
  With2(a, b, LAMBDA x, y :
    IF x # <<>> /\ y # <<>> /\ x[Len(x)].b = y[1].b
    THEN SubSeq(x, 1, Len(x) - 1)
         \o <<[b |-> y[1].b, n |-> NAdd(x[Len(x)].n, y[1].n)]>>
         \o Tail(y)
    ELSE x \o y)

RECURSIVE PackRange(_, _, _)
\* The byte string of the runs lo..hi of `runs`: empty runs dropped,
\* adjacent runs of one byte merged.
PackRange(runs, lo, hi) ==
  IF lo > hi THEN <<>>
  ELSE IF lo = hi THEN (IF runs[lo].n = <<>> THEN <<>> ELSE <<runs[lo]>>)
  ELSE Join(PackRange(runs, lo, (lo + hi) \div 2),
            PackRange(runs, ((lo + hi) \div 2) + 1, hi))

Pack(runs) == With(runs, LAMBDA x : PackRange(x, 1, Len(x)))

\* The byte string holding the bytes of the sequence s.
Bytes(s) ==
  With(s, LAMBDA x : Pack([i \in 1..Len(x) |-> [b |-> x[i], n |-> <<1>>]]))

\* n bytes b.
Fill(b, n) == Pack(<<[b |-> b, n |-> n]>>)

\* a followed by b (the iterator chains of Chunk::new and Chunk::as_bytes).
Chain(a, b) == Join(a, b)

RECURSIVE LenRange(_, _, _)
\* The number of bytes in the runs lo..hi of s.
LenRange(s, lo, hi) ==
  IF lo > hi THEN <<>>
  ELSE IF lo = hi THEN s[lo].n
  ELSE NAdd(LenRange(s, lo, (lo + hi) \div 2),
            LenRange(s, ((lo + hi) \div 2) + 1, hi))

\* slice.len()
BLen(s) == With(s, LAMBDA x : LenRange(x, 1, Len(x)))

RECURSIVE EndsRange(_, _, _, _)
\* For each of the runs lo..hi of s, the number of bytes up to its end,
\* `base` being the number of bytes before run lo.
EndsRange(s, lo, hi, base) ==
  IF lo > hi THEN <<>>
  ELSE IF lo = hi THEN <<NAdd(base, s[lo].n)>>
  ELSE With(EndsRange(s, lo, (lo + hi) \div 2, base), LAMBDA l :
         l \o EndsRange(s, ((lo + hi) \div 2) + 1, hi, l[Len(l)]))

\* ends[i] is the number of bytes in the runs 1..i of s.
Ends(s) == With(s, LAMBDA x : EndsRange(x, 1, Len(x), <<>>))

NMin(a, b) == IF NLess(b, a) THEN b ELSE a
NMax(a, b) == IF NLess(a, b) THEN b ELSE a

\* Whether s[from..to] is in range: a slice index out of range panics.

\* s[from..to], for from <= to <= s.len(): the part between from and to
\* of each run that has one.
Range(s, from, to) ==
  With2(s, Ends(s), LAMBDA x, ends :
    With2(from, to, LAMBDA f, t :
      With2(Cardinality({i \in 1..Len(x) : NLeq(ends[i], f)}),
            Cardinality({i \in 1..Len(x) : NLess(ends[i], t)}),
            LAMBDA lo, hi :
        IF f = t THEN <<>>
        ELSE With([j \in 1..(hi - lo + 1) |->
                     [b |-> x[lo + j].b,
                      n |-> NSub(NMin(ends[lo + j], t),
                                 NMax(IF lo + j = 1 THEN <<>> ELSE ends[lo + j - 1],
                                      f))]],
                  LAMBDA r : r))))

\* s[..k]
Take(s, k) == Range(s, <<>>, k)

\* s[k..]
Drop(s, k) == With(s, LAMBDA x : Range(x, k, BLen(x)))

\* The bytes of a short byte string as a sequence.
Unpack(s) ==
  With(s, LAMBDA x :
    With2(Ends(x), Len(x), LAMBDA e, n : With([i \in 1..n |-> IntOf(e[i])], LAMBDA ends :
      With([j \in 1..(IF x = <<>> THEN 0 ELSE ends[Len(x)]) |->
              x[1 + Cardinality({i \in 1..Len(x) : ends[i] < j})].b],
           LAMBDA r : r))))

\* ------------------------------------------------------------ results

Ok(v) == [tag |-> "Ok", val |-> v]
Err(e) == [tag |-> "Err", err |-> e]
\* A panic: the thread unwinds, no value is returned.
Panic(m) == [tag |-> "Panic", msg |-> m]
Some(v) == [tag |-> "Some", val |-> v]
None == [tag |-> "None"]

\* ------------------------------------------------------------ chunk_type.rs

\* enum ChunkTypeParseError
InvalidLength(n) == [kind |-> "InvalidLength", len |-> n]
InvalidByte(b) == [kind |-> "InvalidByte", byte |-> b]

\* u8::is_ascii_alphabetic
is_ascii_alphabetic(b) == b \in 65..90 \/ b \in 97..122

\* The same with the last offending byte reported instead of the first.
ChunkType_try_from_last(value) ==
  LET bad == {i \in 1..4 : ~is_ascii_alphabetic(value[i])}
  IN  IF bad # {}
      THEN Err(InvalidByte(value[CHOOSE i \in bad : \A j \in bad : j <= i]))
      ELSE Ok(value)

\* impl TryFrom<[u8; 4]> for ChunkType: value.iter().find(..) is the first
\* byte that is not alphabetic.
ChunkType_try_from(value) ==
  LET bad == {i \in 1..4 : ~is_ascii_alphabetic(value[i])}
  IN  IF bad # {}
      THEN Err(InvalidByte(value[CHOOSE i \in bad : \A j \in bad : i <= j]))
      ELSE Ok(value)

\* impl FromStr for ChunkType (s the bytes of the string)
ChunkType_from_str(s) ==
  IF Len(s) # 4 THEN Err(InvalidLength(Len(s)))
  ELSE ChunkType_try_from(<<s[1], s[2], s[3], s[4]>>)

\* ChunkType::bytes
bytes(chunk_type) == chunk_type

\* The test inverted: true when the bit is set.
nth_bit_set(num, n) == BitAnd(num, 2 ^ n) # 0

\* fn nth_bit(num: u8, n: u32) -> bool { num & (1 << n) == 0 }
nth_bit(num, n) == BitAnd(num, 2 ^ n) = 0

is_critical(chunk_type) == nth_bit(chunk_type[1], 5)
is_public(chunk_type) == nth_bit(chunk_type[2], 5)
is_reserved_bit_valid(chunk_type) == nth_bit(chunk_type[3], 5)
is_safe_to_copy(chunk_type) == ~nth_bit(chunk_type[4], 5)
is_valid(chunk_type) == is_reserved_bit_valid(chunk_type)

\* ------------------------------------------------------------ chunk.rs

\* enum ChunkParseError
Incomplete == [kind |-> "Incomplete"]
InvalidLengthField(e, f) == [kind |-> "InvalidLengthField", expected |-> e, found |-> f]
InvalidChunkType(e) == [kind |-> "InvalidChunkType", source |-> e]
InvalidChecksum == [kind |-> "InvalidChecksum"]

\* Chunk::new: the length is data.len() as u32, the crc is taken over the
\* type bytes followed by the data.
Chunk_new(chunk_type, data) ==
  With2(chunk_type, data, LAMBDA t, d :
    [length |-> AsU32(BLen(d)),
     chunk_type |-> t,
     data |-> d,
     crc |-> checksum(Chain(Bytes(bytes(t)), d))])

Chunk_length(chunk) == chunk.length
Chunk_chunk_type(chunk) == chunk.chunk_type
Chunk_data(chunk) == chunk.data
Chunk_crc(chunk) == chunk.crc

\* Chunk::as_bytes: length, type, data, crc, the two u32 big-endian.
Chunk_as_bytes(chunk) ==
  With(chunk, LAMBDA c :
    Chain(Chain(Chain(Bytes(to_be_bytes(c.length)), Bytes(bytes(c.chunk_type))),
                c.data),
          Bytes(to_be_bytes(c.crc))))

\* value[from..to] for a slice of len bytes, or the panic of an index out
\* of range.
Slice(value, len, from, to) ==
  IF NLeq(from, to) /\ NLeq(to, len) THEN Ok(Range(value, from, to))
  ELSE Panic("slice index out of range")

\* The rest of try_from once the length field has been accepted.
Chunk_try_from_body(value, len) ==
  With(Slice(value, len, NatOf(4), NatOf(8)), LAMBDA s :
    IF s.tag = "Panic" THEN s
    ELSE With(ChunkType_try_from(Unpack(s.val)), LAMBDA chunk_type :
      IF chunk_type.tag = "Err" THEN Err(InvalidChunkType(chunk_type.err))
      ELSE With2(Slice(value, len, NatOf(8), NSub(len, NatOf(4))),
                 Slice(value, len, NSub(len, NatOf(4)), len), LAMBDA d, c :
        IF d.tag = "Panic" THEN d
        ELSE IF c.tag = "Panic" THEN c
        ELSE With2(from_be_bytes(Unpack(c.val)), Chunk_new(chunk_type.val, d.val),
                   LAMBDA crc, chunk :
          IF crc # chunk.crc THEN Err(InvalidChecksum) ELSE Ok(chunk)))))

\* try_from once the slice is known to hold 12 bytes or more: the length
\* field against `value.len() as u32 - 12`, then the rest.  `checks` is the
\* build's overflow-checks setting: the subtraction panics on overflow with
\* it (the dev profile) and wraps without it (the release profile).
Chunk_try_from_checked(value, len, checks) ==
  With(Slice(value, len, <<>>, NatOf(4)), LAMBDA s :
    IF s.tag = "Panic" THEN s
    ELSE With(from_be_bytes(Unpack(s.val)), LAMBDA length :
      IF checks /\ U32Less(AsU32(len), U32Of(12))
      THEN Panic("attempt to subtract with overflow")
      ELSE With(U32WrappingSub(AsU32(len), U32Of(12)), LAMBDA expected :
        IF length # expected
        THEN Err(InvalidLengthField(expected, length))
        ELSE Chunk_try_from_body(value, len))))

\* try_from with the bound of its first test off by one (<= for <).
Chunk_try_from_leq(value, checks) ==
  With2(value, BLen(value), LAMBDA v, len :
    IF NLeq(len, NatOf(12)) THEN Err(Incomplete)
    ELSE Chunk_try_from_checked(v, len, checks))

\* impl TryFrom<&[u8]> for Chunk
Chunk_try_from(value, checks) ==
  With2(value, BLen(value), LAMBDA v, len :
    IF NLess(len, NatOf(12)) THEN Err(Incomplete)
    ELSE Chunk_try_from_checked(v, len, checks))

RECURSIVE Utf8From(_, _)
\* Whether the bytes i.. of s are well-formed UTF-8 (core::str::from_utf8).
Utf8From(s, i) ==
  LET Cont(j) == j <= Len(s) /\ s[j] \in 128..191
  IN  IF i > Len(s) THEN TRUE
      ELSE IF s[i] < 128 THEN Utf8From(s, i + 1)
      ELSE IF s[i] \in 194..223 THEN Cont(i + 1) /\ Utf8From(s, i + 2)
      ELSE IF s[i] \in 224..239
        THEN /\ Cont(i + 1) /\ Cont(i + 2)
             /\ (s[i] = 224 => s[i + 1] >= 160)
             /\ (s[i] = 237 => s[i + 1] <= 159)
             /\ Utf8From(s, i + 3)
      ELSE IF s[i] \in 240..244
        THEN /\ Cont(i + 1) /\ Cont(i + 2) /\ Cont(i + 3)
             /\ (s[i] = 240 => s[i + 1] >= 144)
             /\ (s[i] = 244 => s[i + 1] <= 143)
             /\ Utf8From(s, i + 4)
      ELSE FALSE

\* Chunk::data_as_string: String::from_utf8(self.data.clone())
Chunk_data_as_string(chunk) ==
  With(Unpack(chunk.data), LAMBDA s :
    IF Utf8From(s, 1) THEN Ok(s) ELSE Err([kind |-> "FromUtf8Error"]))

\* impl Display for Chunk: the fields written into the line.
Chunk_fmt(chunk) ==
  With2(chunk, Chunk_data_as_string(chunk), LAMBDA c, s :
    [length |-> c.length,
     type |-> c.chunk_type,
     data |-> IF s.tag = "Ok" THEN s.val ELSE "<Invalid UTF-8>",
     crc |-> c.crc])

\* ------------------------------------------------------------ png.rs
\* (the container's source is not part of the repository's files: it is
\* modelled from the specification of the container)

\* The fixed 8-byte signature a PNG file starts with.
STANDARD_HEADER == <<137, 80, 78, 71, 13, 10, 26, 10>>

\* The bytes of the next chunk of `rest`: 12 more than its length field
\* says, or all of rest when it has fewer.
ChunkSpan(rest) ==
  With2(rest, BLen(rest), LAMBDA r, len :
    IF NLess(len, NatOf(4)) THEN len
    ELSE With(NAdd(Norm(from_be_bytes(Unpack(Take(r, NatOf(4))))), NatOf(12)),
              LAMBDA n : IF NLess(len, n) THEN len ELSE n))

RECURSIVE ParseChunks(_, _, _)
\* The chunks of `rest` in order after `chunks`, or the first failure.
ParseChunks(rest, chunks, checks) ==
  With2(rest, chunks, LAMBDA r, cs :
    IF r = <<>> THEN Ok([chunks |-> cs])
    ELSE With(ChunkSpan(r), LAMBDA n :
      With(Chunk_try_from(Take(r, n), checks), LAMBDA c :
        IF c.tag # "Ok" THEN c
        ELSE ParseChunks(Drop(r, n), Append(cs, c.val), checks))))

\* impl TryFrom<&[u8]> for Png: the signature, then the chunks.
Png_try_from(value, checks) ==
  With(value, LAMBDA v :
    IF NLess(BLen(v), NatOf(8)) \/ Unpack(Take(v, NatOf(8))) # STANDARD_HEADER
    THEN Err([kind |-> "InvalidSignature"])
    ELSE ParseChunks(Drop(v, NatOf(8)), <<>>, checks))

RECURSIVE ChainAll(_, _, _)
\* acc followed by the bytes of the chunks i.. of cs.
ChainAll(acc, cs, i) ==
  IF i > Len(cs) THEN acc
  ELSE With(Chain(acc, Chunk_as_bytes(cs[i])), LAMBDA a : ChainAll(a, cs, i + 1))

\* Png::as_bytes: the signature and every chunk's bytes in order.
Png_as_bytes(png) ==
  With(png, LAMBDA p : ChainAll(Bytes(STANDARD_HEADER), p.chunks, 1))

\* Png::append_chunk: at the end, whatever the types already there.
Png_append_chunk(png, chunk) == [chunks |-> Append(png.chunks, chunk)]

\* The places of the chunks of type chunk_type.
Matches(png, chunk_type) ==
  {i \in 1..Len(png.chunks) : png.chunks[i].chunk_type = chunk_type}

\* The first of a non-empty set of places.
First(places) == CHOOSE i \in places : \A j \in places : i <= j

\* Png::chunk_by_type: the first chunk of that type.
Png_chunk_by_type(png, chunk_type) ==
  With2(png, Matches(png, chunk_type), LAMBDA p, m :
    IF m = {} THEN None ELSE Some(p.chunks[First(m)]))

\* Png::remove_chunk: removes and returns the first chunk of that type, or
\* reports that there is none.
Png_remove_chunk(png, chunk_type) ==
  With2(png, Matches(png, chunk_type), LAMBDA p, m :
    IF m = {} THEN Err([kind |-> "ChunkNotFound"])
    ELSE Ok([removed |-> p.chunks[First(m)],
             png |-> [chunks |-> SubSeq(p.chunks, 1, First(m) - 1)
                                 \o SubSeq(p.chunks, First(m) + 1, Len(p.chunks))]]))

\* impl Display for Png: one line for each chunk.
Png_fmt(png) == With(png, LAMBDA p : [i \in 1..Len(p.chunks) |-> Chunk_fmt(p.chunks[i])])

\* ------------------------------------------------------------ commands.rs

\* A file system maps a path to Some(bytes of the file) or None (no file).
\* A command returns its result, the file system it leaves and the lines
\* it printed.
Outcome(result, fsys, stdout) == [result |-> result, fs |-> fsys, stdout |-> stdout]

\* fn try_read_png: fs::read, then Png::try_from.
try_read_png(fsys, path, checks) ==
  IF fsys[path] = None THEN Err([context |-> "Failed to open PNG file"])
  ELSE Png_try_from(fsys[path].val, checks)

\* encode with the file written before the chunk is appended.
encode_write_first(fsys, path, chunk_type, message, output, checks) ==
  With(try_read_png(fsys, path, checks), LAMBDA png :
    IF png.tag # "Ok" THEN Outcome(png, fsys, <<>>)
    ELSE Outcome(Ok(<<>>),
                 [fsys EXCEPT ![IF output # None THEN output.val ELSE path] =
                    Some(Png_as_bytes(png.val))],
                 <<>>))

\* pub fn encode: reads the file at path, appends the new chunk, writes
\* the file at output, or at path when there is no output.
encode(fsys, path, chunk_type, message, output, checks) ==
  With(try_read_png(fsys, path, checks), LAMBDA png :
    IF png.tag # "Ok" THEN Outcome(png, fsys, <<>>)
    ELSE Outcome(Ok(<<>>),
                 [fsys EXCEPT ![IF output # None THEN output.val ELSE path] =
                    Some(Png_as_bytes(Png_append_chunk(
                           png.val, Chunk_new(chunk_type, Bytes(message)))))],
                 <<>>))

\* pub fn decode: prints the data of the first chunk of the type.
decode(fsys, path, chunk_type, checks) ==
  With(try_read_png(fsys, path, checks), LAMBDA png :
    IF png.tag # "Ok" THEN Outcome(png, fsys, <<>>)
    ELSE With(Png_chunk_by_type(png.val, chunk_type), LAMBDA chunk :
      IF chunk = None
      THEN Outcome(Err([message |-> "no chunk with that type found"]), fsys, <<>>)
      ELSE With(Chunk_data_as_string(chunk.val), LAMBDA s :
        IF s.tag = "Err"
        THEN Outcome(Err([context |-> "Failed to read embedded data in chunk"]),
                     fsys, <<>>)
        ELSE Outcome(Ok(<<>>), fsys, <<s.val>>))))

\* remove with the result of remove_chunk ignored.
remove_unchecked(fsys, path, chunk_type, checks) ==
  With(try_read_png(fsys, path, checks), LAMBDA png :
    IF png.tag # "Ok" THEN Outcome(png, fsys, <<>>)
    ELSE With(Png_remove_chunk(png.val, chunk_type), LAMBDA removed :
      Outcome(Ok(<<>>),
              [fsys EXCEPT ![path] =
                 Some(Png_as_bytes(IF removed.tag = "Err" THEN png.val
                                   ELSE removed.val.png))],
              <<>>)))

\* pub fn remove: removes the first chunk of the type and writes the file
\* back; the `?` on remove_chunk returns its error before the write.
remove(fsys, path, chunk_type, checks) ==
  With(try_read_png(fsys, path, checks), LAMBDA png :
    IF png.tag # "Ok" THEN Outcome(png, fsys, <<>>)
    ELSE With(Png_remove_chunk(png.val, chunk_type), LAMBDA removed :
      IF removed.tag = "Err" THEN Outcome(removed, fsys, <<>>)
      ELSE Outcome(Ok(<<>>),
                   [fsys EXCEPT ![path] = Some(Png_as_bytes(removed.val.png))],
                   <<>>)))

\* pub fn print: prints the container.
print(fsys, path, checks) ==
  With(try_read_png(fsys, path, checks), LAMBDA png :
    IF png.tag # "Ok" THEN Outcome(png, fsys, <<>>)
    ELSE Outcome(Ok(<<>>), fsys, <<Png_fmt(png.val)>>))

\* ------------------------------------------------------------ inputs

\* The longest payload enumerated byte by byte.
MaxDataLen == 2

\* "RuSt", "ruSt", "Rust", "RuST": the chunk types of the tests.
RuSt == <<82, 117, 83, 116>>
ValidTypes == {RuSt, <<114, 117, 83, 116>>, <<82, 117, 115, 116>>, <<82, 117, 83, 84>>}

\* The bytes tried at each place of a 4-byte type: letters of both cases,
\* 'A' 'Z' 'z', and the neighbours of the letter ranges '@' '[' '`' '{'
\* and the digit '1'.
TypeBytes == <<{82, 114, 65, 64}, {117, 85, 90, 91}, {83, 115, 49, 96}, {116, 84, 122, 123}>>

\* The arguments of ChunkType::try_from and of ChunkType::from_str: 4-byte
\* arrays, and strings of 3 and 5 bytes.
TypeInputs ==
  {<<a, b, c, d>> : a \in TypeBytes[1], b \in TypeBytes[2],
                    c \in TypeBytes[3], d \in TypeBytes[4]}
  \cup {<<82, 117, 83>>, <<82, 117, 83, 116, 116>>}

\* "This is where your secret message will be!"
Message ==
  <<84, 104, 105, 115, 32, 105, 115, 32, 119, 104, 101, 114, 101, 32, 121,
    111, 117, 114, 32, 115, 101, 99, 114, 101, 116, 32, 109, 101, 115, 115,
    97, 103, 101, 32, 119, 105, 108, 108, 32, 98, 101, 33>>

\* The crc the tests give for "RuSt" and Message: 2882656334.
MessageCrc == <<78, 216, 209, 171>>

\* 2^32 as a usize (a 64-bit target).
TwoPow32 == <<0, 0, 0, 0, 1>>

DataBytes == {0, 97}
SmallData == UNION {[1..k -> DataBytes] : k \in 0..MaxDataLen}

\* Payloads of a few bytes and the test's message.
Payloads == {Bytes(d) : d \in SmallData \cup {Message}}

\* Payloads that with the 12 bytes of framing reach 2^32 bytes: 2^32 - 12
\* bytes and 2^32 bytes.
HugePayloads == {Fill(97, NSub(TwoPow32, NatOf(12))), Fill(0, TwoPow32)}

\* The bytes of a chunk as they lie in a file: any length field, any four
\* type bytes, any crc field.
Raw(len_field, type_bytes, data, crc_field) ==
  Chain(Chain(Chain(Bytes(to_be_bytes(len_field)), Bytes(type_bytes)), data),
        Bytes(to_be_bytes(crc_field)))

\* Slices with a right or a wrong length field, good or bad type bytes and
\* a right or a wrong crc field.
FramedInputs ==
  {Raw(U32Of(Len(d) + dl), t, Bytes(d),
       U32WrappingSub(checksum(Bytes(t \o d)), U32Of(dc))) :
     t \in {RuSt, <<82, 117, 49, 116>>}, d \in SmallData,
     dl \in {0, 1}, dc \in {0, 1}}

\* The slice of test_invalid_chunk_length: the length field says 9999.
InvalidLengthInput == Raw(U32Of(9999), RuSt, Bytes(Message), MessageCrc)

\* The slice of test_invalid_chunk_from_bytes: the crc field is less by one.
InvalidChecksumInput ==
  Raw(U32Of(42), RuSt, Bytes(Message), U32WrappingSub(MessageCrc, U32Of(1)))

\* The slices of the tests of chunk.rs: the valid chunk, the length field
\* 9999, the crc field less by one.
TestInputs ==
  {Raw(U32Of(42), RuSt, Bytes(Message), MessageCrc),
   InvalidLengthInput,
   InvalidChecksumInput}

\* Slices cut short: every prefix of a chunk of 14 bytes.
ShortInputs ==
  {Take(Chunk_as_bytes(Chunk_new(RuSt, Bytes(<<97, 97>>))), NatOf(k)) : k \in 0..13}

\* Slices of 2^32 bytes and more: zeros, and a framed slice whose length
\* field is its payload's length.
HugeInputs ==
  {Fill(0, NAdd(TwoPow32, NatOf(5))),
   Fill(0, NAdd(TwoPow32, NatOf(12))),
   Raw(AsU32(NSub(TwoPow32, NatOf(7))), RuSt,
       Fill(97, NSub(TwoPow32, NatOf(7))), MessageCrc)}

RawInputs == FramedInputs \cup TestInputs \cup ShortInputs \cup HugeInputs

\* The most commands run one after the other.
MaxSteps == 2

\* "ruSt" and "RuSt", the chunk types given to the commands.
ruSt == <<114, 117, 83, 116>>
CommandTypes == {ruSt, RuSt}

\* "hi", the message given to encode.
Messages == {<<104, 105>>}

\* The file the commands work on, and the file encode may write instead.
Paths == {"a.png", "b.png"}

\* A PNG file whose only chunk has type RuSt.
OnlyRuSt == Some(Png_as_bytes([chunks |-> <<Chunk_new(RuSt, Bytes(<<97, 97>>))>>]))

\* A PNG file whose only chunk has type ruSt.
OnlyruSt == Some(Png_as_bytes([chunks |-> <<Chunk_new(ruSt, Bytes(<<120>>))>>]))

\* What a.png can hold at the start: no file, bytes that are no PNG, a PNG
\* without chunks, with one chunk of type RuSt, with one chunk of type
\* ruSt, and with a chunk of type RuSt before a chunk of type ruSt whose
\* data is no UTF-8.
FileInputs ==
  {None,
   Some(Bytes(<<80, 78, 71>>)),
   Some(Png_as_bytes([chunks |-> <<>>])),
   OnlyRuSt,
   OnlyruSt,
   Some(Png_as_bytes([chunks |-> <<Chunk_new(RuSt, Bytes(<<97, 97>>)),
                                   Chunk_new(ruSt, Bytes(<<255>>))>>]))}

\* ------------------------------------------------------------ state

VARIABLES
  overflow_checks,  \* the build: TRUE with overflow checks (dev), FALSE without
  type_input,       \* the argument of ChunkType::try_from / from_str
  type_result,      \* its result
  props,            \* the property bits read off the chunk type
  payload,          \* the data given to Chunk::new
  built,            \* the chunk Chunk::new returned
  wire,             \* the slice given to Chunk::try_from
  parsed,           \* its result
  fs,               \* the files: path |-> Some(bytes) or None
  hist              \* the commands run so far, each with the files before and after

codec == <<type_input, type_result, props, payload, built, wire, parsed>>
files == <<fs, hist>>
vars == <<overflow_checks, codec, files>>

Init ==
  /\ overflow_checks \in BOOLEAN
  /\ \/ /\ type_input \in {Some(i) : i \in TypeInputs}
        /\ payload = None
        /\ wire = None
     \/ /\ type_input \in {Some(t) : t \in ValidTypes}
        /\ payload \in {Some(d) : d \in Payloads}
        /\ wire = None
     \/ /\ type_input = Some(RuSt)
        /\ payload \in {Some(d) : d \in HugePayloads}
        /\ wire = None
     \/ /\ type_input = None
        /\ payload = None
        /\ wire \in {Some(w) : w \in RawInputs}
  /\ type_result = None
  /\ props = None
  /\ built = None
  /\ parsed = None
  /\ fs = [p \in Paths |-> None]
  /\ hist = <<>>

\* ChunkType::try_from(bytes)
TypeTryFrom ==
  /\ type_input # None
  /\ Len(type_input.val) = 4
  /\ type_result = None
  /\ type_result' = ChunkType_try_from(type_input.val)
  /\ UNCHANGED <<overflow_checks, type_input, props, payload, built, wire, parsed, files>>

\* ChunkType::from_str(s)
TypeFromStr ==
  /\ type_input # None
  /\ type_result = None
  /\ type_result' = ChunkType_from_str(type_input.val)
  /\ UNCHANGED <<overflow_checks, type_input, props, payload, built, wire, parsed, files>>

\* The accessors of a chunk type.
TypeProps ==
  /\ type_result.tag = "Ok"
  /\ props = None
  /\ props' = Some([is_valid |-> is_valid(type_result.val),
                    is_critical |-> is_critical(type_result.val),
                    is_public |-> is_public(type_result.val),
                    is_reserved_bit_valid |-> is_reserved_bit_valid(type_result.val),
                    is_safe_to_copy |-> is_safe_to_copy(type_result.val)])
  /\ UNCHANGED <<overflow_checks, type_input, type_result, payload, built, wire, parsed, files>>

\* Chunk::new(chunk_type, data)
New ==
  /\ type_result.tag = "Ok"
  /\ payload # None
  /\ built = None
  /\ built' = Some(Chunk_new(type_result.val, payload.val))
  /\ UNCHANGED <<overflow_checks, type_input, type_result, props, payload, wire, parsed, files>>

\* chunk.as_bytes()
AsBytes ==
  /\ built # None
  /\ wire = None
  /\ wire' = Some(Chunk_as_bytes(built.val))
  /\ UNCHANGED <<overflow_checks, type_input, type_result, props, payload, built, parsed, files>>

\* Chunk::try_from(bytes)
TryFrom ==
  /\ wire # None
  /\ parsed = None
  /\ parsed' = Chunk_try_from(wire.val, overflow_checks)
  /\ UNCHANGED <<overflow_checks, type_input, type_result, props, payload, built, wire, files>>

Next == TypeTryFrom \/ TypeFromStr \/ TypeProps \/ New \/ AsBytes \/ TryFrom

Spec == Init /\ [][Next]_vars

\* The commands of main.rs, run one after the other on the files.

InitCmd ==
  /\ overflow_checks \in BOOLEAN
  /\ fs \in {[p \in Paths |-> IF p = "a.png" THEN f ELSE None] : f \in FileInputs}
  /\ hist = <<>>
  /\ type_input = None
  /\ type_result = None
  /\ props = None
  /\ payload = None
  /\ built = None
  /\ wire = None
  /\ parsed = None

\* What one command did: its arguments, the files before, and its outcome.
Step(cmd, path, chunk_type, output, o) ==
  [cmd |-> cmd, path |-> path, chunk_type |-> chunk_type, output |-> output,
   before |-> fs, after |-> o.fs, result |-> o.result, stdout |-> o.stdout]

\* pngme encode a.png <type> <message> [b.png]
Encode ==
  /\ Len(hist) < MaxSteps
  /\ \E chunk_type \in CommandTypes, message \in Messages,
        output \in {None, Some("b.png")} :
       \E o \in {encode(fs, "a.png", chunk_type, message, output, overflow_checks)} :
           /\ fs' = o.fs
           /\ hist' = Append(hist, Step("encode", "a.png", chunk_type, output, o))
  /\ UNCHANGED <<overflow_checks, codec>>

\* pngme decode a.png <type>
Decode ==
  /\ Len(hist) < MaxSteps
  /\ \E chunk_type \in CommandTypes :
       \E o \in {decode(fs, "a.png", chunk_type, overflow_checks)} :
           /\ fs' = o.fs
           /\ hist' = Append(hist, Step("decode", "a.png", chunk_type, None, o))
  /\ UNCHANGED <<overflow_checks, codec>>

\* pngme remove a.png <type>
Remove ==
  /\ Len(hist) < MaxSteps
  /\ \E chunk_type \in CommandTypes :
       \E o \in {remove(fs, "a.png", chunk_type, overflow_checks)} :
           /\ fs' = o.fs
           /\ hist' = Append(hist, Step("remove", "a.png", chunk_type, None, o))
  /\ UNCHANGED <<overflow_checks, codec>>

\* pngme print a.png
PrintFile ==
  /\ Len(hist) < MaxSteps
  /\ \E o \in {print(fs, "a.png", overflow_checks)} :
         /\ fs' = o.fs
         /\ hist' = Append(hist, Step("print", "a.png", None, None, o))
  /\ UNCHANGED <<overflow_checks, codec>>

NextCmd == Encode \/ Decode \/ Remove \/ PrintFile

SpecCmd == InitCmd /\ [][NextCmd]_vars


\* ------------------------------------------------------------ properties

\* The length of the slice given to Chunk::try_from, its length field, and
\* whether a byte is an ASCII letter or has bit 5 clear, each said without
\* the operators of the program.
WireLen == BLen(wire.val)
WireField == from_be_bytes(Unpack(Take(wire.val, NatOf(4))))
Alphabetic(b) == b \in (65..90) \cup (97..122)
Bit5Clear(b) == (b \div 32) % 2 = 0

\* The command run last and the one before it.
Last == hist[Len(hist)]
Prev == hist[Len(hist) - 1]

\* C1: for every valid chunk type t and every payload d, parsing the bytes
\* of Chunk::new(t, d) returns a chunk with the same length, type, payload
\* and crc.
C1_RoundTrip ==
  (built # None /\ parsed # None) => parsed = Ok(built.val)

\* C3: a slice of 12 bytes or more whose length field differs from its
\* length less 12 fails with InvalidLengthField, expected being the length
\* less 12 and found the length field, whatever the type and crc bytes.
C3_LengthFieldMismatch ==
  (/\ parsed # None
   /\ NLeq(NatOf(12), WireLen)
   /\ Norm(WireField) # NSub(WireLen, NatOf(12)))
  => /\ parsed.tag = "Err"
     /\ parsed.err.kind = "InvalidLengthField"
     /\ Norm(parsed.err.expected) = NSub(WireLen, NatOf(12))
     /\ parsed.err.found = WireField

\* C4 as the code has it: the slice with the length field 9999, the type
\* RuSt, the message and its crc fails with
\* InvalidLengthField{expected: 42, found: 9999}.
C4_LengthVector ==
  (wire = Some(InvalidLengthInput) /\ parsed # None)
  => parsed = Err(InvalidLengthField(U32Of(42), U32Of(9999)))

\* C4 as stated: the same slice fails with
\* InvalidLengthField{expected: 44, found: 9999}.
C4_LengthVectorStated ==
  (wire = Some(InvalidLengthInput) /\ parsed # None)
  => parsed = Err(InvalidLengthField(U32Of(44), U32Of(9999)))

C4_Witness ==
  /\ wire = Some(InvalidLengthInput)
  /\ parsed.tag = "Err"
  /\ parsed.err.kind = "InvalidLengthField"

\* C5: a slice of 12 bytes or more whose length field is its length less
\* 12 and whose type bytes are letters fails with InvalidChecksum exactly
\* when its crc field differs from the CRC-32 of its type bytes and
\* payload, and is returned as a chunk otherwise.
C5_Checksum ==
  (/\ parsed # None
   /\ NLeq(NatOf(12), WireLen)
   /\ Norm(WireField) = NSub(WireLen, NatOf(12))
   /\ \A t \in {Unpack(Range(wire.val, NatOf(4), NatOf(8)))} :
        \A i \in 1..4 : Alphabetic(t[i]))
  => \E t \in {Unpack(Range(wire.val, NatOf(4), NatOf(8)))},
        d \in {Range(wire.val, NatOf(8), NSub(WireLen, NatOf(4)))},
        crc \in {from_be_bytes(Unpack(Drop(wire.val, NSub(WireLen, NatOf(4)))))} :
       /\ parsed.tag # "Panic"
       /\ IF crc # checksum(Chain(Bytes(t), d))
          THEN parsed = Err(InvalidChecksum)
          ELSE parsed = Ok([length |-> WireField, chunk_type |-> t,
                            data |-> d, crc |-> crc])

\* C6: Chunk::try_from fails with Incomplete for every slice shorter than
\* 12 bytes, and for no slice of 12 bytes or more.
C6_Incomplete ==
  parsed # None => (parsed = Err(Incomplete) <=> NLess(WireLen, NatOf(12)))

C6_Witness ==
  /\ wire # None
  /\ WireLen = NatOf(11)
  /\ parsed = Err(Incomplete)

\* C7: ChunkType::try_from of a 4-byte array returns the 4 bytes when each
\* is an ASCII letter, and fails otherwise with InvalidByte of the leftmost
\* byte that is not; [R, u, 1, t] fails with InvalidByte('1').
C7_TypeParse ==
  (type_input # None /\ type_result # None /\ Len(type_input.val) = 4)
  => LET v == type_input.val
         bad == {i \in 1..4 : ~Alphabetic(v[i])}
     IN  /\ IF bad = {} THEN type_result = Ok(v)
            ELSE \E i \in bad : /\ \A j \in bad : i <= j
                                /\ type_result = Err(InvalidByte(v[i]))
         /\ v = <<82, 117, 49, 116>> => type_result = Err(InvalidByte(49))

C7_Witness ==
  /\ type_input = Some(<<82, 117, 49, 123>>)
  /\ type_result = Err(InvalidByte(49))

\* C8: is_critical, is_public and is_reserved_bit_valid hold exactly when
\* bit 5 of byte 0, 1 and 2 is clear, is_safe_to_copy exactly when bit 5 of
\* byte 3 is set, and is_valid is is_reserved_bit_valid; RuSt is critical,
\* not public, reserved-valid and safe to copy, ruSt is not critical, Rust
\* is not valid and RuST is not safe to copy.
C8_PropertyBits ==
  props # None
  => LET t == type_result.val
         p == props.val
     IN  /\ p.is_critical = Bit5Clear(t[1])
         /\ p.is_public = Bit5Clear(t[2])
         /\ p.is_reserved_bit_valid = Bit5Clear(t[3])
         /\ p.is_safe_to_copy = ~Bit5Clear(t[4])
         /\ p.is_valid = p.is_reserved_bit_valid
         /\ t = RuSt => /\ p.is_critical /\ ~p.is_public
                        /\ p.is_reserved_bit_valid /\ p.is_safe_to_copy
         /\ t = <<114, 117, 83, 116>> => ~p.is_critical
         /\ t = <<82, 117, 115, 116>> => ~p.is_valid
         /\ t = <<82, 117, 83, 84>> => ~p.is_safe_to_copy

C8_Witness ==
  /\ props # None
  /\ type_result = Ok(<<82, 117, 115, 116>>)
  /\ ~props.val.is_valid
  /\ props.val.is_critical

\* C10: Chunk::try_from never panics: for every slice it returns a chunk
\* or a ChunkParseError.
C10_NoPanic ==
  parsed # None => parsed.tag \in {"Ok", "Err"}

\* encode of a chunk of type ruSt into a.png has just been followed by
\* remove of the type ruSt from a.png.
EncodeThenRemove ==
  /\ Len(hist) >= 2
  /\ Prev.cmd = "encode"
  /\ Prev.chunk_type = ruSt
  /\ Prev.output = None
  /\ Prev.result.tag = "Ok"
  /\ Last.cmd = "remove"
  /\ Last.chunk_type = ruSt

\* C2 as the container has it: appending a chunk of type ruSt to a
\* container that holds no chunk of that type and then removing by the type
\* ruSt leaves the container's original chunks in their order.
C2_AppendRemove ==
  EncodeThenRemove
  => \A p \in {Png_try_from(Prev.before["a.png"].val, overflow_checks).val} :
       (\A k \in 1..Len(p.chunks) : p.chunks[k].chunk_type # ruSt)
       => /\ Last.result.tag = "Ok"
          /\ Png_try_from(Last.after["a.png"].val, overflow_checks) = Ok(p)

\* C2 as stated: appending a chunk of type ruSt to a container, whatever
\* chunks it holds, and then removing by the type ruSt leaves the
\* container's original chunks in their order.
C2_AppendRemoveStated ==
  EncodeThenRemove
  => \A p \in {Png_try_from(Prev.before["a.png"].val, overflow_checks).val} :
       /\ Last.result.tag = "Ok"
       /\ Png_try_from(Last.after["a.png"].val, overflow_checks) = Ok(p)

C2_Witness ==
  /\ EncodeThenRemove
  /\ Prev.before["a.png"] = OnlyRuSt
  /\ Last.result.tag = "Ok"
  /\ Last.after["a.png"] = OnlyRuSt

\* C9: remove of a type that no chunk of the container has fails with the
\* container's not-found error and writes nothing: the files are as they
\* were before the command.
C9_RemoveAbsent ==
  (/\ hist # <<>>
   /\ Last.cmd = "remove"
   /\ Last.before["a.png"] # None)
  => \A r \in {Png_try_from(Last.before["a.png"].val, overflow_checks)} :
       (/\ r.tag = "Ok"
        /\ \A k \in 1..Len(r.val.chunks) :
             r.val.chunks[k].chunk_type # Last.chunk_type)
       => /\ Last.result = Err([kind |-> "ChunkNotFound"])
          /\ Last.after = Last.before

C9_Witness ==
  /\ hist # <<>>
  /\ Last.cmd = "remove"
  /\ Last.chunk_type = ruSt
  /\ Last.before["a.png"] = OnlyRuSt
  /\ Last.result = Err([kind |-> "ChunkNotFound"])
  /\ Last.after["a.png"] = OnlyRuSt

=============================================================================
